---- MODULE Spec2Model ----
(***************************************************************************)
(* A model of mach, the command-line dispatch framework of B2G:            *)
(*   python/mach/mach/main.py   Mach.__init__, Mach._load_modules,         *)
(*                              Mach.run, Mach._run, ArgumentParser.error  *)
(*   python/mach/mach/base.py   CommandProvider                            *)
(*   python/b2g/mach/commands   build.py, emulator.py, flash.py            *)
(*                                                                         *)
(* Two specifications share the variables:                                 *)
(*   Spec      one invocation of Mach.run on a constructed Mach object     *)
(*   SpecScan  a sequence of Mach constructions in one process             *)
(***************************************************************************)
EXTENDS Integers, Sequences, FiniteSets, TLC

VARIABLES
    pc,              \* "idle" | "call" (inside fn(**stripped)) | "done"
    argv,            \* the argument vector given to Mach.run
    registry,        \* registered command names, in registration order
    out,             \* what was printed, in order
    ret,             \* how Mach.run ended: [how, code]
    inner,           \* how Mach._run ended
    parsed,          \* parser.parse_args(argv) was called
    sinks,           \* logging sinks configured on the log manager
    instantiated,    \* a handler class was instantiated
    invoked,         \* fn(**stripped) was called
    ns,              \* the parsed namespace, vars(args)
    kwargs,          \* the keyword arguments given to the handler
    hev,             \* what the handler did
    MODULES_SCANNED, \* main.py:35
    sysPath,         \* sys.path
    bad,             \* command modules that raise while being loaded
    loads,           \* imp.load_source calls of the process, in order
    scanLog,         \* imp.load_source calls of the latest scan, in order
    scanEnd,         \* how the latest scan ended: "none" | "ok" | "raised"
    scans,           \* number of _load_modules calls of the process
    constructions,   \* number of Mach(cwd) calls of the process
    declSrc,         \* the @CommandArgument specs of a handler, top to bottom
    declPc,          \* "body" | "provided" | "populated"
    declNext,        \* index in declSrc of the next decorator to be applied
    mach_command,    \* the function carries _mach_command
    mach_command_args, \* func._mach_command_args
    registered,      \* register_method_handler was called for the function
    handed,          \* the arguments given to register_method_handler
    resolved,        \* the order of the arguments in the command's parser
    environ,         \* os.environ when mach.base is imported
    basePc,          \* "start" | "loaded" | "failed" | "normalized"
    _current_shell,  \* base.py:21-36
    _in_msys,        \* base.py:30-33
    normArgs,        \* the args given to _normalize_command
    normRequire,     \* its require_unix_environment
    normResult,      \* what it returned
    sys_streams,     \* sys.stdin, sys.stdout and sys.stderr
    orig_streams,    \* run's orig_stdin, orig_stdout and orig_stderr
    stream_args,     \* the stdin, stdout and stderr given to run
    streamsBefore    \* sys_streams immediately before run was called

vars == <<pc, argv, registry, out, ret, inner, parsed, sinks, instantiated,
          invoked, ns, kwargs, hev, MODULES_SCANNED, sysPath, bad, loads,
          scanLog, scanEnd, scans, constructions, declSrc, declPc, declNext,
          mach_command, mach_command_args, registered, handed, resolved,
          environ, basePc, _current_shell, _in_msys, normArgs, normRequire,
          normResult, sys_streams, orig_streams, stream_args, streamsBefore>>

runVars == <<pc, argv, out, ret, inner, parsed, sinks, instantiated,
             invoked, ns, kwargs, hev>>

scanVars == <<MODULES_SCANNED, sysPath, bad, loads, scanLog, scanEnd, scans,
              constructions>>

declVars == <<declSrc, declPc, declNext, mach_command, mach_command_args,
              registered, handed, resolved>>

baseVars == <<environ, basePc, _current_shell, _in_msys, normArgs,
              normRequire, normResult>>

streamVars == <<sys_streams, orig_streams, stream_args, streamsBefore>>

(***************************************************************************)
(* Bounds                                                                  *)
(***************************************************************************)
MaxArgv == 4            \* longest argument vector
MaxFrames == 3          \* most stack frames below the dispatcher's frame
MaxExit == 3            \* largest integer a handler returns
MaxPath == 3            \* longest sys.path
MaxConstructions == 3   \* most Mach(cwd) calls in one process
MaxSpecs == 3           \* most @CommandArgument decorators on one handler
MaxCommand == 2         \* longest generated command given to _normalize_command
MaxArgLen == 1          \* longest generated string of such a command
MaxStreamArgv == 1      \* longest argument vector of a run with given streams

(***************************************************************************)
(* The command line                                                        *)
(***************************************************************************)
Tokens == {"build", "flash", "help", "bogus", "gaia",
           "-h", "-v", "-l", "--log-interval", "-s"}

\* argparse: a string whose first character is in prefix_chars
OptionTokens == {"-h", "-v", "-l", "--log-interval", "-s"}

IsOption(t) == t \in OptionTokens

Argvs == UNION {[1..n -> Tokens] : n \in 0..MaxArgv}

CONSUMED_ARGUMENTS_NoCls == {"settings_file", "verbose", "logfile",
                             "log_interval", "command", "method", "func"}

CONSUMED_ARGUMENTS == {"settings_file", "verbose", "logfile", "log_interval",
                       "command", "cls", "method", "func"}

(***************************************************************************)
(* The registered commands: what @Command and @CommandArgument declare in  *)
(* the command modules, as the registrar hands it to argparse.             *)
(***************************************************************************)
NoOptions == [o \in {} |-> "None"]

Descriptor(name) ==
    CASE name = "build" ->
            [cls |-> "Build", method |-> "build",
             options |-> NoOptions, positionals |-> <<>>]
      [] name = "run-emulator" ->
            [cls |-> "Emulator", method |-> "run_emulator",
             options |-> NoOptions, positionals |-> <<>>]
      [] name = "flash" ->
            [cls |-> "Flash", method |-> "flash",
             options |-> ("--serial-number" :> "serial_number")
                         @@ ("-s" :> "serial_number"),
             positionals |-> <<[dest |-> "project",
                                choices |-> {"gecko", "gaia", "time"}]>>]

Names(reg) == {reg[i] : i \in 1..Len(reg)}

\* the registries a scan of the repository's command modules can leave
Registries == {<<>>, <<"build">>, <<"flash">>,
               <<"build", "run-emulator", "flash">>}

(***************************************************************************)
(* ArgumentParser                                                          *)
(***************************************************************************)
Parsed(n, extras) ==
    [kind |-> "parsed", code |-> 0, out |-> <<>>, ns |-> n, extras |-> extras]

Exited(code, o) ==
    [kind |-> "exit", code |-> code, out |-> o, ns |-> NoOptions,
     extras |-> <<>>]

InvalidCommand == "argument command: invalid choice"

StartsWithInvalidCommand_Never(message) == FALSE

\* message.startswith('argument command: invalid choice')
StartsWithInvalidCommand(message) == message = InvalidCommand

error_AlwaysOne(message) ==
    IF ~StartsWithInvalidCommand(message)
    THEN Exited(1, <<"usage", message>>)
    ELSE Exited(1, <<"Invalid command specified.", "HELP">>)

\* ArgumentParser.error: argparse's own error() prints the usage and the
\* message and exits with status 2
error(message) ==
    IF ~StartsWithInvalidCommand(message)
    THEN Exited(2, <<"usage", message>>)
    ELSE Exited(1, <<"Invalid command specified.", "HELP">>)

\* the global arguments of get_argument_parser and set_defaults(command=)
MainDefaults ==
    ("verbose" :> "False") @@ ("logfile" :> "None")
    @@ ("log_interval" :> "False") @@ ("command" :> "help")

\* the defaults a command's sub-parser adds to the namespace
SubDefaults(d) ==
    ("cls" :> d.cls) @@ ("method" :> d.method)
    @@ [k \in {d.options[o] : o \in DOMAIN d.options} |-> "None"]
    @@ [k \in {d.positionals[p].dest : p \in 1..Len(d.positionals)} |-> "None"]

\* a command's sub-parser on the tokens after the command name
RECURSIVE parse_sub(_, _, _, _, _, _)
parse_sub(d, toks, j, n, extras, p) ==
    IF j > Len(toks)
    THEN IF p <= Len(d.positionals)
         THEN error("too few arguments")
         ELSE Parsed(n, extras)
    ELSE LET t == toks[j] IN
         IF t = "-h" THEN Exited(0, <<"COMMAND HELP">>)
         ELSE IF t \in DOMAIN d.options
         THEN IF j + 1 <= Len(toks) /\ ~IsOption(toks[j + 1])
              THEN parse_sub(d, toks, j + 2,
                             [n EXCEPT ![d.options[t]] = toks[j + 1]],
                             extras, p)
              ELSE error("expected one argument")
         ELSE IF IsOption(t)
         THEN parse_sub(d, toks, j + 1, n, Append(extras, t), p)
         ELSE IF p <= Len(d.positionals)
         THEN IF t \in d.positionals[p].choices
              THEN parse_sub(d, toks, j + 1,
                             [n EXCEPT ![d.positionals[p].dest] = t],
                             extras, p + 1)
              ELSE error("argument project: invalid choice")
         ELSE parse_sub(d, toks, j + 1, n, Append(extras, t), p)

\* the main parser: global arguments, then the command and its sub-parser
RECURSIVE parse_main(_, _, _, _, _)
parse_main(reg, a, i, n, extras) ==
    IF i > Len(a)
    THEN error("too few arguments")
    ELSE LET t == a[i] IN
         IF t = "-h" THEN Exited(0, <<"HELP">>)
         ELSE IF t = "-v"
         THEN parse_main(reg, a, i + 1, [n EXCEPT !["verbose"] = "True"],
                         extras)
         ELSE IF t = "--log-interval"
         THEN parse_main(reg, a, i + 1,
                         [n EXCEPT !["log_interval"] = "True"], extras)
         ELSE IF t = "-l"
         THEN IF i + 1 <= Len(a) /\ ~IsOption(a[i + 1])
              THEN parse_main(reg, a, i + 2,
                              [n EXCEPT !["logfile"] = a[i + 1]], extras)
              ELSE error("expected one argument")
         ELSE IF IsOption(t)
         THEN parse_main(reg, a, i + 1, n, Append(extras, t))
         ELSE IF t \notin Names(reg)
         THEN error(InvalidCommand)
         ELSE parse_sub(Descriptor(t), SubSeq(a, i + 1, Len(a)), 1,
                        [n EXCEPT !["command"] = t] @@ SubDefaults(Descriptor(t)),
                        extras, 1)

\* parser.parse_args(argv)
parse_args(reg, a) ==
    LET r == parse_main(reg, a, 1, MainDefaults, <<>>) IN
    IF r.kind = "parsed" /\ Len(r.extras) > 0
    THEN error("unrecognized arguments")
    ELSE r

(***************************************************************************)
(* What a handler can do when it is called                                 *)
(***************************************************************************)
Files == {"flash.py", "base.py"}

\* the frames below the dispatcher's own frame; none when the call itself
\* raises (a keyword-argument mismatch)
FrameSeqs == UNION {[1..n -> Files] : n \in 0..MaxFrames}

ReturnValues ==
    {[type |-> "NoneType", truthy |-> FALSE, n |-> 0]}
    \cup {[type |-> "int", truthy |-> (n # 0), n |-> n] : n \in (-1)..MaxExit}
    \cup {[type |-> "str", truthy |-> b, n |-> 0] : b \in BOOLEAN}

NoValue == [type |-> "NoneType", truthy |-> FALSE, n |-> 0]

NoEvent == [kind |-> "none", value |-> NoValue, tb |-> <<>>]

(***************************************************************************)
(* Mach.run and Mach._run                                                  *)
(***************************************************************************)
Range(s) == {s[i] : i \in 1..Len(s)}

Outcome(i, how, code, o) ==
    [inner |-> i, how |-> how, code |-> code, out |-> o]

IsHelp_Never(t) == FALSE

\* argv[0] == 'help'
IsHelp(t) == t = "help"

\* Mach.run, except Exception: an exception that escaped _run
run_except(exc) ==
    Outcome(exc, "return", 1,
            <<"Error running mach:", "MACH_ERROR", "ERROR_FOOTER", exc,
              "STACK">>)

\* Mach.run, except KeyboardInterrupt
run_interrupt ==
    Outcome("KeyboardInterrupt", "return", 1,
            <<"mach interrupted by signal or user action. Stopping.">>)

Classify_LastFrame(stack) ==
    IF stack[Len(stack)] # stack[1] THEN "MODULE_ERROR" ELSE "COMMAND_ERROR"

\* the split of the frames into command_frames and other_frames
Classify(stack) ==
    LET initial_file == stack[1]
        other_frames == SelectSeq(stack, LAMBDA frame : frame # initial_file)
    IN  IF Len(other_frames) > 0 THEN "MODULE_ERROR" ELSE "COMMAND_ERROR"

\* Mach._run, except Exception: tb is the traceback, the dispatcher's own
\* frame first; stack[0] of an empty stack raises IndexError out of _run
_run_except(tb, exc) ==
    LET stack == Tail(tb) IN
    IF Len(stack) = 0
    THEN run_except("IndexError")
    ELSE Outcome("return", "return", 1,
                 <<"Error running mach:", Classify(stack), "ERROR_FOOTER",
                   exc, "STACK">>)

_run_interrupt_AsException(tb) == _run_except(tb, "KeyboardInterrupt")

\* Mach._run, except KeyboardInterrupt: raise ki
_run_interrupt(tb) == run_interrupt

_run_result_Unchecked(v) ==
    IF ~v.truthy
    THEN Outcome("return", "return", 0, <<>>)
    ELSE Outcome("return", "return", v.n, <<>>)

\* Mach._run after fn(**stripped) returned v
_run_result(v) ==
    IF ~v.truthy
    THEN Outcome("return", "return", 0, <<>>)
    ELSE IF v.type = "int"
    THEN Outcome("return", "return", v.n, <<>>)
    ELSE _run_except(<<"main.py">>, "AssertionError")

\* stripped = {k: getattr(args, k) for k in vars(args)
\*             if k not in CONSUMED_ARGUMENTS}
Stripped(n) == [k \in (DOMAIN n) \ CONSUMED_ARGUMENTS |-> n[k]]

\* the logging sinks _run configures from the global arguments
Sinks(n) ==
    (IF n["logfile"] # "None" THEN {"json"} ELSE {}) \cup {"terminal"}

StreamNames == {"stdin", "stdout", "stderr"}

\* no stream given: the stdin=None, stdout=None, stderr=None of run
None == [obj |-> "None", encoding |-> "None", wrapped |-> FALSE]

DefaultStreams == [k \in StreamNames |-> None]

\* the streams of a process started on a terminal
TtyStreams ==
    [k \in StreamNames |->
        [obj |-> "process", encoding |-> "UTF-8", wrapped |-> FALSE]]

\* codecs.getreader('utf-8')(stream), codecs.getwriter('utf-8')(stream)
Wrap(stream) == [stream EXCEPT !.wrapped = TRUE]

\* stdin = sys.stdin if stdin is None else stdin, and so on
Used(given, current) ==
    [k \in StreamNames |-> IF given[k] = None THEN current[k] ELSE given[k]]

\* the order in which run reads the encoding of the streams
StreamOrder == <<"stdin", "stdout", "stderr">>

\* the first stream whose encoding cannot be read, 4 when there is none
FirstMissing(used) ==
    IF \E i \in 1..3 : used[StreamOrder[i]].encoding = "missing"
    THEN CHOOSE i \in 1..3 :
            /\ used[StreamOrder[i]].encoding = "missing"
            /\ \A j \in 1..(i - 1) : used[StreamOrder[j]].encoding # "missing"
    ELSE 4

\* the streams in place when run leaves the wrapping: a stream whose
\* encoding is None is wrapped, up to the first stream without the attribute
Installed(used) ==
    [k \in StreamNames |->
        LET i == CHOOSE n \in 1..3 : StreamOrder[n] = k IN
        IF i < FirstMissing(used) /\ used[k].encoding = "None"
        THEN Wrap(used[k])
        ELSE used[k]]

restore_NotOnExit(orig, current, how) ==
    IF how = "exit" THEN current ELSE orig

\* finally: sys.stdin = orig_stdin; sys.stdout = orig_stdout;
\* sys.stderr = orig_stderr
restore(orig, current, how) == orig

\* the end of run: orig holds run's orig_stdin, orig_stdout, orig_stderr and
\* current the streams in place when the try block is left
End(o, orig, current) ==
    /\ pc' = "done"
    /\ out' = out \o o.out
    /\ ret' = [how |-> o.how, code |-> o.code]
    /\ inner' = o.inner
    /\ sys_streams' = restore(orig, current, o.how)

\* Mach.run(argv, stdin, stdout, stderr) up to the call of the handler
Run(a, given) ==
    /\ pc = "idle"
    /\ argv' = a
    /\ stream_args' = given
    /\ streamsBefore' = sys_streams
    /\ orig_streams' = sys_streams
    /\ LET used == Used(given, sys_streams)
           wrapped == Installed(used)
           Finish(o) == End(o, sys_streams, wrapped)
       IN
       IF \E k \in StreamNames : used[k].encoding = "missing"
       THEN /\ Finish(run_except("AttributeError"))
            /\ UNCHANGED <<parsed, sinks, instantiated, ns, kwargs>>
       ELSE IF Len(a) = 0
       THEN /\ Finish(Outcome("return", "return", 0, <<"USAGE">>))
            /\ UNCHANGED <<parsed, sinks, instantiated, ns, kwargs>>
       ELSE IF IsHelp(a[1])
       THEN /\ Finish(Outcome("return", "return", 0, <<"HELP">>))
            /\ UNCHANGED <<parsed, sinks, instantiated, ns, kwargs>>
       ELSE LET r == parse_args(registry, a) IN
            /\ parsed' = TRUE
            /\ IF r.kind = "exit"
               THEN /\ Finish(Outcome("SystemExit", "exit", r.code, r.out))
                    /\ UNCHANGED <<sinks, instantiated, ns, kwargs>>
               ELSE /\ ns' = r.ns
                    /\ sinks' = Sinks(r.ns)
                    /\ IF "cls" \in DOMAIN r.ns
                       THEN /\ instantiated' = TRUE
                            /\ kwargs' = Stripped(r.ns)
                            /\ pc' = "call"
                            /\ sys_streams' = wrapped
                            /\ UNCHANGED <<out, ret, inner>>
                       ELSE IF "func" \in DOMAIN r.ns
                       THEN /\ kwargs' = Stripped(r.ns)
                            /\ pc' = "call"
                            /\ sys_streams' = wrapped
                            /\ UNCHANGED <<out, ret, inner, instantiated>>
                       ELSE /\ Finish(run_except("Exception"))
                            /\ UNCHANGED <<instantiated, kwargs>>
    /\ UNCHANGED <<registry, invoked, hev>>
    /\ UNCHANGED scanVars
    /\ UNCHANGED declVars
    /\ UNCHANGED baseVars

\* fn(**stripped) returns v
HandlerReturns(v) ==
    /\ pc = "call"
    /\ invoked' = TRUE
    /\ hev' = [kind |-> "return", value |-> v, tb |-> <<>>]
    /\ End(_run_result(v), orig_streams, sys_streams)
    /\ UNCHANGED <<orig_streams, stream_args, streamsBefore>>
    /\ UNCHANGED <<argv, registry, parsed, sinks, instantiated, ns, kwargs>>
    /\ UNCHANGED scanVars
    /\ UNCHANGED declVars
    /\ UNCHANGED baseVars

\* fn(**stripped) raises an Exception with these frames below the dispatcher
HandlerRaises(frames) ==
    /\ pc = "call"
    /\ invoked' = TRUE
    /\ hev' = [kind |-> "raise", value |-> NoValue,
               tb |-> <<"main.py">> \o frames]
    /\ End(_run_except(<<"main.py">> \o frames, "Exception"), orig_streams, sys_streams)
    /\ UNCHANGED <<orig_streams, stream_args, streamsBefore>>
    /\ UNCHANGED <<argv, registry, parsed, sinks, instantiated, ns, kwargs>>
    /\ UNCHANGED scanVars
    /\ UNCHANGED declVars
    /\ UNCHANGED baseVars

\* KeyboardInterrupt is raised while fn(**stripped) runs
HandlerInterrupted(frames) ==
    /\ pc = "call"
    /\ invoked' = TRUE
    /\ hev' = [kind |-> "interrupt", value |-> NoValue,
               tb |-> <<"main.py">> \o frames]
    /\ End(_run_interrupt(<<"main.py">> \o frames), orig_streams, sys_streams)
    /\ UNCHANGED <<orig_streams, stream_args, streamsBefore>>
    /\ UNCHANGED <<argv, registry, parsed, sinks, instantiated, ns, kwargs>>
    /\ UNCHANGED scanVars
    /\ UNCHANGED declVars
    /\ UNCHANGED baseVars

\* the code a handler runs assigns sys.stdout
HandlerSetsStdout ==
    /\ pc = "call"
    /\ sys_streams["stdout"].obj # "handler"
    /\ sys_streams' =
            [sys_streams EXCEPT !["stdout"] =
                [obj |-> "handler", encoding |-> "UTF-8", wrapped |-> FALSE]]
    /\ UNCHANGED <<orig_streams, stream_args, streamsBefore>>
    /\ UNCHANGED <<pc, argv, registry, out, ret, inner, parsed, sinks,
                   instantiated, invoked, ns, kwargs, hev>>
    /\ UNCHANGED scanVars
    /\ UNCHANGED declVars
    /\ UNCHANGED baseVars

\* a process started on a terminal, no run under way
StreamsIdle ==
    /\ sys_streams = TtyStreams
    /\ orig_streams = TtyStreams
    /\ stream_args = DefaultStreams
    /\ streamsBefore = TtyStreams

RunInit ==
    /\ pc = "idle"
    /\ argv = <<>>
    /\ out = <<>>
    /\ ret = [how |-> "none", code |-> 0]
    /\ inner = "none"
    /\ parsed = FALSE
    /\ sinks = {}
    /\ instantiated = FALSE
    /\ invoked = FALSE
    /\ ns = NoOptions
    /\ kwargs = NoOptions
    /\ hev = NoEvent

\* mach.base was imported in a Unix environment
BaseDone ==
    /\ environ = ("SHELL" :> <<"s", "h">>)
    /\ basePc = "loaded"
    /\ _current_shell = <<"s", "h">>
    /\ _in_msys = FALSE
    /\ normArgs = <<>>
    /\ normRequire = FALSE
    /\ normResult = <<>>

\* no command module is being imported
DeclDone ==
    /\ declSrc = <<>>
    /\ declPc = "populated"
    /\ declNext = 0
    /\ mach_command = FALSE
    /\ mach_command_args = <<>>
    /\ registered = FALSE
    /\ handed = <<>>
    /\ resolved = <<>>

ScanDone ==
    /\ MODULES_SCANNED = TRUE
    /\ sysPath = <<>>
    /\ bad = {}
    /\ loads = <<>>
    /\ scanLog = <<>>
    /\ scanEnd = "ok"
    /\ scans = 1
    /\ constructions = 1

\* a constructed Mach object whose scan registered some command modules
Init ==
    /\ RunInit
    /\ StreamsIdle
    /\ BaseDone
    /\ ScanDone
    /\ DeclDone
    /\ registry \in Registries

Next ==
    \/ pc = "idle" /\ \E a \in Argvs : Run(a, DefaultStreams)
    \/ pc = "call" /\ \E v \in ReturnValues : HandlerReturns(v)
    \/ pc = "call" /\ \E frames \in FrameSeqs : HandlerRaises(frames)
    \/ pc = "call" /\ \E frames \in FrameSeqs : HandlerInterrupted(frames)

Spec == Init /\ [][Next]_vars

(***************************************************************************)
(* Mach.__init__ and Mach._load_modules                                    *)
(***************************************************************************)
\* the directories sys.path can name: the repository's python/b2g, a second
\* tree with a commands package, and a tree without mach/commands
Dirs == {"b2g", "ext", "lib"}

\* os.path.isdir(os.path.join(path, 'mach', 'commands'))
isdir(d) == d \in {"b2g", "ext"}

\* os.listdir(commands_path)
listdir(d) ==
    CASE d = "b2g" -> {"build.py", "emulator.py", "flash.py"}
      [] d = "ext" -> {"__init__.py", "flash.py", "README", "sub"}
      [] OTHER -> {}

\* f.endswith('.py')
endswith_py(f) == f \in {"__init__.py", "build.py", "emulator.py", "flash.py"}

\* the position of a file name in the order of Python's string comparison
Rank(f) ==
    CASE f = "README" -> 1
      [] f = "__init__.py" -> 2
      [] f = "build.py" -> 3
      [] f = "emulator.py" -> 4
      [] f = "flash.py" -> 5
      [] f = "sub" -> 6

RECURSIVE sorted(_)
sorted(S) ==
    IF S = {} THEN <<>>
    ELSE LET m == CHOOSE x \in S : \A y \in S : Rank(x) <= Rank(y)
         IN  <<m>> \o sorted(S \ {m})

\* the commands a module registers when it is executed: CommandProvider
\* calls register_method_handler for every method that carries @Command
ProvidedCommands(f) ==
    CASE f = "build.py" -> <<"build">>
      [] f = "emulator.py" -> <<"run-emulator">>
      [] f = "flash.py" -> <<"flash">>
      [] OTHER -> <<>>

\* the inner loop of _load_modules: the files of one directory it loads
LoadsOfDir(d) ==
    LET keep(f) == ~(~endswith_py(f) \/ f = "__init__.py")
        files == SelectSeq(sorted(listdir(d)), keep)
    IN  [i \in 1..Len(files) |-> [dir |-> d, file |-> files[i]]]

\* the outer loop of _load_modules: every imp.load_source call of a scan
\* in which no module raises
RECURSIVE LoadsOfPath(_)
LoadsOfPath(path) ==
    IF Len(path) = 0 THEN <<>>
    ELSE (IF ~isdir(Head(path)) THEN <<>> ELSE LoadsOfDir(Head(path)))
         \o LoadsOfPath(Tail(path))

RECURSIVE Registered(_)
Registered(ls) ==
    IF Len(ls) = 0 THEN <<>>
    ELSE ProvidedCommands(Head(ls).file) \o Registered(Tail(ls))

\* _load_modules: a module that raises ends the scan; the modules before
\* it were executed and have registered their commands
_load_modules(path, raising) ==
    LET all == LoadsOfPath(path)
        failing == {i \in 1..Len(all) : all[i] \in raising}
    IN  IF failing = {}
        THEN [end |-> "ok", loaded |-> all, registered |-> Registered(all)]
        ELSE LET k == CHOOSE i \in failing : \A j \in failing : i <= j
             IN  [end |-> "raised", loaded |-> SubSeq(all, 1, k),
                  registered |-> Registered(SubSeq(all, 1, k - 1))]

\* Mach(cwd)
Construct(cwdIsDir) ==
    /\ constructions < MaxConstructions
    /\ constructions' = constructions + 1
    /\ IF ~cwdIsDir
       THEN UNCHANGED <<MODULES_SCANNED, loads, scanLog, scanEnd, scans,
                        registry>>
       ELSE IF ~MODULES_SCANNED
       THEN LET r == _load_modules(sysPath, bad) IN
            /\ scans' = scans + 1
            /\ scanLog' = r.loaded
            /\ scanEnd' = r.end
            /\ loads' = loads \o r.loaded
            /\ registry' = registry \o r.registered
            /\ MODULES_SCANNED' = (r.end = "ok")
       ELSE /\ MODULES_SCANNED' = TRUE
            /\ UNCHANGED <<loads, scanLog, scanEnd, scans, registry>>
    /\ UNCHANGED <<sysPath, bad>>
    /\ UNCHANGED runVars
    /\ UNCHANGED streamVars
    /\ UNCHANGED declVars
    /\ UNCHANGED baseVars

SysPaths == UNION {[1..n -> Dirs] : n \in 0..MaxPath}

\* the command modules a scan can execute
Modules ==
    {m \in [dir : Dirs, file : {"build.py", "emulator.py", "flash.py"}] :
        isdir(m.dir) /\ m.file \in listdir(m.dir)}

\* the start of a process: nothing scanned; at most one module raises
InitScan ==
    /\ RunInit
    /\ StreamsIdle
    /\ BaseDone
    /\ DeclDone
    /\ registry = <<>>
    /\ MODULES_SCANNED = FALSE
    /\ sysPath \in SysPaths
    /\ bad \in {{}} \cup {{m} : m \in Modules}
    /\ loads = <<>>
    /\ scanLog = <<>>
    /\ scanEnd = "none"
    /\ scans = 0
    /\ constructions = 0

NextScan == \E cwdIsDir \in BOOLEAN : Construct(cwdIsDir)

SpecScan == InitScan /\ [][NextScan]_vars

(***************************************************************************)
(* Properties                                                              *)
(***************************************************************************)
InvalidCommandReported == "Invalid command specified." \in Range(out)

HelpPrinted == "HELP" \in Range(out)

\* argparse's own error report: the usage line and the message
ParserErrorReported == "usage" \in Range(out)

InvalidInvocation == InvalidCommandReported \/ ParserErrorReported

Returned(code) == ret = [how |-> "return", code |-> code]

Exits(code) == ret = [how |-> "exit", code |-> code]

\* C1, as stated: with a non-empty argv, a registered command name as first
\* token is accepted, and every other first token prints the full help and
\* ends the invocation with exit code 1.
C1_OtherFirstTokenExitsOne ==
    (pc # "idle" /\ Len(argv) > 0) =>
        IF argv[1] \in Names(registry)
        THEN ~InvalidCommandReported
        ELSE pc = "done" /\ HelpPrinted /\ ret.code = 1

\* C1, amended: with a non-empty argv whose first token is not an option,
\* the literal 'help' prints the full help and returns 0, a registered
\* command name is accepted as the command, and every other first token
\* prints the full help and ends the invocation with exit code 1.
C1_FirstTokenIsCommandOrHelp ==
    (pc # "idle" /\ Len(argv) > 0 /\ ~IsOption(argv[1])) =>
        IF argv[1] = "help"
        THEN pc = "done" /\ out = <<"HELP">> /\ Returned(0)
        ELSE IF argv[1] \in Names(registry)
        THEN /\ ~InvalidCommandReported
             /\ pc = "call" => ns["command"] = argv[1]
        ELSE /\ pc = "done"
             /\ out = <<"Invalid command specified.", "HELP">>
             /\ Exits(1)

C1_Witness ==
    /\ pc = "done"
    /\ Len(argv) > 0
    /\ argv[1] = "bogus"
    /\ Len(registry) > 0
    /\ HelpPrinted
    /\ Exits(1)

Reserved == {"settings_file", "verbose", "logfile", "log_interval",
             "command", "cls", "method", "func"}

\* C2: the keyword arguments of every dispatch hold none of the reserved
\* keys and hold every other key of the parsed namespace with its value.
C2_ReservedKeysStripped ==
    (pc = "call" \/ invoked) =>
        /\ DOMAIN kwargs \cap Reserved = {}
        /\ \A k \in (DOMAIN ns) \ Reserved :
                k \in DOMAIN kwargs /\ kwargs[k] = ns[k]

C2_Witness ==
    /\ invoked
    /\ "cls" \in DOMAIN ns
    /\ ns["verbose"] = "True"
    /\ DOMAIN kwargs = {"project", "serial_number"}
    /\ kwargs["project"] = "gaia"

\* C3: a handler that returns a falsy value gives exit code 0, one that
\* returns an integer n gives n, and one that returns a non-integer truthy
\* value makes _run fail instead of returning, reported with the MACH_ERROR
\* banner and neither of the command and module banners.
C3_ExitCodeOfReturnValue ==
    (pc = "done" /\ hev.kind = "return") =>
        LET v == hev.value IN
        /\ ~v.truthy => (inner = "return" /\ Returned(0))
        /\ (v.truthy /\ v.type = "int") => (inner = "return" /\ Returned(v.n))
        /\ (v.truthy /\ v.type # "int") =>
                /\ inner # "return"
                /\ "MACH_ERROR" \in Range(out)
                /\ "COMMAND_ERROR" \notin Range(out)
                /\ "MODULE_ERROR" \notin Range(out)

C3_Witness ==
    /\ pc = "done"
    /\ hev.kind = "return"
    /\ hev.value.type = "str"
    /\ hev.value.truthy
    /\ "MACH_ERROR" \in Range(out)

\* C4: an exception raised by the handler is reported with COMMAND_ERROR
\* when every frame below the dispatcher's has the file of the first such
\* frame, with MODULE_ERROR when some frame has another file, and _run
\* returns 1.
C4_ClassifiedByFrameFiles ==
    (pc = "done" /\ hev.kind = "raise" /\ Len(hev.tb) > 1) =>
        LET rest == Tail(hev.tb)
            same == \A i \in 1..Len(rest) : rest[i] = rest[1]
        IN  /\ inner = "return"
            /\ Returned(1)
            /\ same => ("COMMAND_ERROR" \in Range(out)
                        /\ "MODULE_ERROR" \notin Range(out))
            /\ ~same => ("MODULE_ERROR" \in Range(out)
                         /\ "COMMAND_ERROR" \notin Range(out))

C4_Witness ==
    /\ pc = "done"
    /\ hev.kind = "raise"
    /\ hev.tb = <<"main.py", "flash.py", "base.py", "flash.py">>
    /\ "MODULE_ERROR" \in Range(out)

\* C5: every exception other than an interrupt raised while the handler is
\* invoked, the call itself included, is caught in _run, reported with
\* exactly one of the command and module banners, and _run returns 1.
C5_HandlerExceptionStaysInRun ==
    (pc = "done" /\ hev.kind = "raise") =>
        /\ inner = "return"
        /\ Returned(1)
        /\ ("COMMAND_ERROR" \in Range(out)) # ("MODULE_ERROR" \in Range(out))
        /\ "MACH_ERROR" \notin Range(out)

\* C6: an empty argv prints the short usage and returns 0, a first token
\* 'help' prints the full help and returns 0; nothing is parsed, no logging
\* sink is configured, no class instantiated and no handler invoked.
C6_UsageAndHelpShortCircuit ==
    (pc = "done" /\ (Len(argv) = 0 \/ argv[1] = "help")) =>
        /\ out = (IF Len(argv) = 0 THEN <<"USAGE">> ELSE <<"HELP">>)
        /\ Returned(0)
        /\ ~parsed
        /\ sinks = {}
        /\ ~instantiated
        /\ ~invoked

C6_Witness ==
    /\ pc = "done"
    /\ Len(argv) = 2
    /\ argv[1] = "help"
    /\ argv[2] \in Names(registry)
    /\ out = <<"HELP">>

\* C7: a keyboard interrupt during the handler leaves _run as it was raised,
\* nothing but the short interrupt message is printed, and run returns 1.
C7_InterruptReraised ==
    (pc = "done" /\ hev.kind = "interrupt") =>
        /\ inner = "KeyboardInterrupt"
        /\ out = <<"mach interrupted by signal or user action. Stopping.">>
        /\ Returned(1)

C7_Witness ==
    /\ pc = "done"
    /\ hev.kind = "interrupt"
    /\ Len(hev.tb) > 1
    /\ Returned(1)

\* C8, as stated: every invalid invocation, unrecognized command or
\* malformed flags, ends with exit code 1.
C8_InvalidInvocationExitsOne ==
    (pc = "done" /\ InvalidInvocation) => ret.code = 1

\* C8, amended: an invalid invocation ends with exit code 1 when its command
\* is unrecognized and with exit code 2 when its flags are malformed; none
\* ends with exit code 0.
C8_InvalidInvocationExitsOneOrTwo ==
    (pc = "done" /\ InvalidInvocation) =>
        /\ InvalidCommandReported => Exits(1)
        /\ ParserErrorReported => Exits(2)
        /\ ret.code # 0

C8_Witness ==
    /\ pc = "done"
    /\ out = <<"usage", "argument project: invalid choice">>
    /\ Exits(2)

\* C9: over any sequence of constructions, failed ones included, the scan
\* of the command modules is performed at most once.
C9_ScanAtMostOnce == scans <= 1

\* C10: a completed scan loads every '.py' file other than '__init__.py'
\* of every mach/commands directory of the search path exactly once, in
\* lexicographic order within each directory, and loads nothing else.
C10_EachFileLoadedOnceInOrder ==
    scanEnd = "ok" =>
        /\ \A i \in 1..Len(sysPath) :
                isdir(sysPath[i]) =>
                    \A f \in listdir(sysPath[i]) :
                        (endswith_py(f) /\ f # "__init__.py") =>
                            Cardinality({k \in 1..Len(scanLog) :
                                scanLog[k] = [dir |-> sysPath[i],
                                              file |-> f]}) = 1
        /\ \A k \in 1..Len(scanLog) :
                /\ scanLog[k].dir \in Range(sysPath)
                /\ isdir(scanLog[k].dir)
                /\ scanLog[k].file \in listdir(scanLog[k].dir)
                /\ endswith_py(scanLog[k].file)
                /\ scanLog[k].file # "__init__.py"
        /\ \A k \in 1..Len(scanLog) : \A l \in 1..Len(scanLog) :
                (k < l /\ scanLog[k].dir = scanLog[l].dir) =>
                    Rank(scanLog[k].file) < Rank(scanLog[l].file)

(***************************************************************************)
(* The decorators of a command module: Command, CommandArgument and        *)
(* CommandProvider, and the parser the registrar builds from them          *)
(***************************************************************************)
SpecNames == {"A", "B", "C", "D"}

\* the @CommandArgument lines above one function, top to bottom
Declarations ==
    {q \in UNION {[1..n -> SpecNames] : n \in 0..MaxSpecs} :
        \A i \in 1..Len(q) : \A j \in 1..Len(q) : q[i] = q[j] => i = j}

RECURSIVE Reverse(_)
Reverse(q) == IF Len(q) = 0 THEN <<>> ELSE Append(Reverse(Tail(q)), Head(q))

CommandArgument_call_Prepend(command_args, spec) == <<spec>> \o command_args

\* CommandArgument.__call__: command_args.append(self._command_args)
CommandArgument_call(command_args, spec) == Append(command_args, spec)

\* the registrar adds the arguments to the command's parser so that the
\* nearest-to-function-first attachment order is reversed
populate_argument_parser(arguments) == Reverse(arguments)

\* Python applies the decorators of a function bottom-up: the one nearest
\* to the function first
ApplyCommandArgument ==
    /\ declPc = "body"
    /\ declNext >= 1
    /\ mach_command_args' =
            CommandArgument_call(mach_command_args, declSrc[declNext])
    /\ declNext' = declNext - 1
    /\ UNCHANGED <<declSrc, declPc, mach_command, registered, handed,
                   resolved>>
    /\ UNCHANGED <<registry, runVars, scanVars, streamVars>>
    /\ UNCHANGED baseVars

\* Command.__call__: func._mach_command = self._command_args
ApplyCommand ==
    /\ declPc = "body"
    /\ ~mach_command
    /\ mach_command' = TRUE
    /\ UNCHANGED <<declSrc, declPc, declNext, mach_command_args, registered,
                   handed, resolved>>
    /\ UNCHANGED <<registry, runVars, scanVars, streamVars>>
    /\ UNCHANGED baseVars

\* CommandProvider(cls), once the class body has been executed: a function
\* without _mach_command is skipped
CommandProvider ==
    /\ declPc = "body"
    /\ declNext = 0
    /\ declPc' = "provided"
    /\ IF ~mach_command
       THEN UNCHANGED <<registered, handed>>
       ELSE /\ registered' = TRUE
            /\ handed' = mach_command_args
    /\ UNCHANGED <<declSrc, declNext, mach_command, mach_command_args,
                   resolved>>
    /\ UNCHANGED <<registry, runVars, scanVars, streamVars>>
    /\ UNCHANGED baseVars

\* get_argument_parser: populate_argument_parser(subparser)
PopulateParser ==
    /\ declPc = "provided"
    /\ declPc' = "populated"
    /\ resolved' = (IF registered THEN populate_argument_parser(handed)
                    ELSE <<>>)
    /\ UNCHANGED <<declSrc, declNext, mach_command, mach_command_args,
                   registered, handed>>
    /\ UNCHANGED <<registry, runVars, scanVars, streamVars>>
    /\ UNCHANGED baseVars

\* the import of a command module reaches the decorators of a handler
InitDecl ==
    /\ RunInit
    /\ StreamsIdle
    /\ BaseDone
    /\ ScanDone
    /\ registry = <<>>
    /\ declSrc \in Declarations
    /\ declPc = "body"
    /\ declNext = Len(declSrc)
    /\ mach_command = FALSE
    /\ mach_command_args = <<>>
    /\ registered = FALSE
    /\ handed = <<>>
    /\ resolved = <<>>

NextDecl ==
    \/ ApplyCommandArgument
    \/ ApplyCommand
    \/ CommandProvider
    \/ PopulateParser

SpecDecl == InitDecl /\ [][NextDecl]_vars

Chars == {"a", "\\", " ", "\""}

Strings == UNION {[1..n -> Chars] : n \in 0..MaxArgLen}

ExampleCommands ==
    {<< <<"C", ":", "\\", "f", "o", "o", "\\", "b", "a", "r", ".", "s", "h">>,
        <<"b", "a", "z">> >>,
     << <<"d", "\\", "r", "u", "n", " ", "i", "t">>,
        <<"a", "\\", "\"", "b", "\\">>, <<>> >>}

Commands == UNION {[1..n -> Strings] : n \in 0..MaxCommand} \cup ExampleCommands

sh == <<"s", "h">>

Environs ==
    {e \in UNION {[S -> {sh, <<"m">>, <<"C", "M", "D", ".", "E", "X", "E">>,
                         <<"M", "I", "N", "G", "W", "3", "2">>,
                         <<"M", "S", "Y", "S">>}] :
                  S \in SUBSET {"SHELL", "MOZILLABUILD", "COMSPEC", "MSYSTEM"}} :
        /\ "SHELL" \in DOMAIN e => e["SHELL"] = sh
        /\ "MOZILLABUILD" \in DOMAIN e => e["MOZILLABUILD"] = <<"m">>
        /\ "COMSPEC" \in DOMAIN e =>
                e["COMSPEC"] = <<"C", "M", "D", ".", "E", "X", "E">>
        /\ "MSYSTEM" \in DOMAIN e =>
                e["MSYSTEM"] \in {<<"M", "I", "N", "G", "W", "3", "2">>,
                                  <<"M", "S", "Y", "S">>}}

\* str.lower() on the characters a shell path ends with
lower(c) ==
    CASE c = "E" -> "e"
      [] c = "X" -> "x"
      [] c = "C" -> "c"
      [] c = "M" -> "m"
      [] c = "D" -> "d"
      [] OTHER -> c

dot_exe == <<".", "e", "x", "e">>

\* _current_shell.lower().endswith('.exe')
endswith_exe(str) ==
    /\ Len(str) >= 4
    /\ [i \in 1..4 |-> lower(str[Len(str) - 4 + i])] = dot_exe

\* base.py:21-28: the shell, or "" when none is detected and the import
\* raises
detect_shell(e) ==
    IF "SHELL" \in DOMAIN e THEN e["SHELL"]
    ELSE IF "MOZILLABUILD" \in DOMAIN e
    THEN e["MOZILLABUILD"]
         \o <<"/", "m", "s", "y", "s", "/", "b", "i", "n", "/", "s", "h",
              ".", "e", "x", "e">>
    ELSE IF "COMSPEC" \in DOMAIN e THEN e["COMSPEC"]
    ELSE <<>>

\* os.environ.get('MSYSTEM', None) == 'MINGW32'
is_mingw32(e) ==
    /\ "MSYSTEM" \in DOMAIN e
    /\ e["MSYSTEM"] = <<"M", "I", "N", "G", "W", "3", "2">>

\* the module-level code of mach.base
ImportBase ==
    /\ basePc = "start"
    /\ IF ~({"SHELL", "MOZILLABUILD", "COMSPEC"} \cap DOMAIN environ # {})
       THEN /\ basePc' = "failed"
            /\ UNCHANGED <<_current_shell, _in_msys>>
       ELSE /\ basePc' = "loaded"
            /\ _in_msys' = is_mingw32(environ)
            /\ _current_shell' =
                    IF is_mingw32(environ)
                       /\ ~endswith_exe(detect_shell(environ))
                    THEN detect_shell(environ) \o dot_exe
                    ELSE detect_shell(environ)
    /\ UNCHANGED <<environ, normArgs, normRequire, normResult>>
    /\ UNCHANGED <<registry, runVars, scanVars, declVars, streamVars>>

replace_Identity(str) == str

\* args[0].replace('\\', '/')
replace(str) == [i \in 1..Len(str) |-> IF str[i] = "\\" THEN "/" ELSE str[i]]

RECURSIVE Repeat(_, _)
Repeat(c, k) == IF k <= 0 THEN <<>> ELSE <<c>> \o Repeat(c, k - 1)

\* the loop of subprocess.list2cmdline over the characters of one argument:
\* bs is len(bs_buf); at the end the pending backslashes are added once,
\* and once more before the closing quote
RECURSIVE quote_chars(_, _, _, _)
quote_chars(arg, i, bs, needquote) ==
    IF i > Len(arg)
    THEN Repeat("\\", bs)
         \o (IF needquote THEN Repeat("\\", bs) \o <<"\"">> ELSE <<>>)
    ELSE IF arg[i] = "\\"
    THEN quote_chars(arg, i + 1, bs + 1, needquote)
    ELSE IF arg[i] = "\""
    THEN Repeat("\\", 2 * bs) \o <<"\\", "\"">>
         \o quote_chars(arg, i + 1, 0, needquote)
    ELSE Repeat("\\", bs) \o <<arg[i]>>
         \o quote_chars(arg, i + 1, 0, needquote)

quote_arg(arg) ==
    LET needquote == \/ (\E i \in 1..Len(arg) : arg[i] = " ")
                     \/ Len(arg) = 0
    IN  (IF needquote THEN <<"\"">> ELSE <<>>)
        \o quote_chars(arg, 1, 0, needquote)

\* subprocess.list2cmdline(seq)
RECURSIVE list2cmdline(_)
list2cmdline(seq) ==
    IF Len(seq) = 0 THEN <<>>
    ELSE IF Len(seq) = 1 THEN quote_arg(seq[1])
    ELSE quote_arg(seq[1]) \o <<" ">> \o list2cmdline(Tail(seq))

AssertionError ==
    << <<"A", "s", "s", "e", "r", "t", "i", "o", "n", "E", "r", "r", "o",
         "r">> >>

\* BaseMixin._normalize_command
normalize_command(args, require_unix_environment, in_msys, shell) ==
    IF Len(args) = 0 THEN AssertionError
    ELSE IF ~require_unix_environment \/ ~in_msys THEN args
    ELSE LET prog == replace(args[1])
             cline == list2cmdline(<<prog>> \o Tail(args))
         IN  <<shell, <<"-", "c">>, cline>>

NormalizeCommand(args, require_unix_environment) ==
    /\ basePc = "loaded"
    /\ basePc' = "normalized"
    /\ normArgs' = args
    /\ normRequire' = require_unix_environment
    /\ normResult' = normalize_command(args, require_unix_environment,
                                       _in_msys, _current_shell)
    /\ UNCHANGED <<environ, _current_shell, _in_msys>>
    /\ UNCHANGED <<registry, runVars, scanVars, declVars, streamVars>>

\* a process about to import mach.base
InitBase ==
    /\ RunInit
    /\ StreamsIdle
    /\ ScanDone
    /\ DeclDone
    /\ registry = <<>>
    /\ environ \in Environs
    /\ basePc = "start"
    /\ _current_shell = <<>>
    /\ _in_msys = FALSE
    /\ normArgs = <<>>
    /\ normRequire = FALSE
    /\ normResult = <<>>

NextBase ==
    \/ ImportBase
    \/ basePc = "loaded" /\ \E args \in Commands, r \in BOOLEAN :
            NormalizeCommand(args, r)

SpecBase == InitBase /\ [][NextBase]_vars

\* the strings of a command joined by single spaces
RECURSIVE SpaceJoin(_)
SpaceJoin(seq) ==
    IF Len(seq) = 0 THEN <<>>
    ELSE IF Len(seq) = 1 THEN seq[1]
    ELSE seq[1] \o <<" ">> \o SpaceJoin(Tail(seq))

\* a string list2cmdline leaves as it is: not empty, no space, no quote
Plain(str) ==
    /\ Len(str) > 0
    /\ \A i \in 1..Len(str) : str[i] \notin {" ", "\""}

Example ==
    << <<"C", ":", "\\", "f", "o", "o", "\\", "b", "a", "r", ".", "s", "h">>,
       <<"b", "a", "z">> >>

Rewritten ==
    basePc = "normalized" /\ _in_msys /\ normRequire /\ Len(normArgs) > 0

\* what C12 says of every rewritten command: three elements, the detected
\* shell, "-c", and a line that starts with the program path with forward
\* slashes for its backslashes and is the plain join when no string of the
\* command needs quoting
RewrittenShape ==
    /\ Len(normResult) = 3
    /\ normResult[1] = _current_shell
    /\ normResult[2] = <<"-", "c">>
    /\ (\A k \in 1..Len(normArgs) : Plain(normArgs[k])) =>
            /\ Len(normResult[3]) = Len(SpaceJoin(normArgs))
            /\ \A i \in 1..Len(normResult[3]) :
                    normResult[3][i] =
                        IF i <= Len(normArgs[1]) /\ normArgs[1][i] = "\\"
                        THEN "/"
                        ELSE SpaceJoin(normArgs)[i]
    /\ (Len(normArgs) = 1 /\ Len(normArgs[1]) > 0
        /\ (\A i \in 1..Len(normArgs[1]) : normArgs[1][i] \in {"a", " "})
        /\ (\E j \in 1..Len(normArgs[1]) : normArgs[1][j] = " ")) =>
            normResult[3] = <<"\"">> \o normArgs[1] \o <<"\"">>

\* C12, as stated: the rewritten command is [shell, "-c", line], and
\* ["C:\\foo\\bar.sh", "baz"] gives the line "foo/bar.sh baz".
C12_ExampleWithoutDrive ==
    Rewritten =>
        /\ RewrittenShape
        /\ normArgs = Example =>
                normResult[3] = <<"f", "o", "o", "/", "b", "a", "r", ".",
                                  "s", "h", " ", "b", "a", "z">>

\* C12, amended: the rewritten command is [shell, "-c", line], and
\* ["C:\\foo\\bar.sh", "baz"] gives the line "C:/foo/bar.sh baz": the drive
\* prefix is kept.
C12_ExampleWithDrive ==
    Rewritten =>
        /\ RewrittenShape
        /\ normArgs = Example =>
                normResult[3] = <<"C", ":", "/", "f", "o", "o", "/", "b",
                                  "a", "r", ".", "s", "h", " ", "b", "a",
                                  "z">>

C12_Witness ==
    /\ Rewritten
    /\ normArgs = Example
    /\ endswith_exe(normResult[1])
    /\ Len(normResult) = 3

(***************************************************************************)
(* Mach.run with given streams                                             *)
(***************************************************************************)
\* a stream given to run: a pipe without encoding, a terminal, or an object
\* without an encoding attribute
GivenStreams ==
    {None} \cup {[obj |-> "given", encoding |-> e, wrapped |-> FALSE] :
                    e \in {"None", "UTF-8", "missing"}}

StreamArgs == [StreamNames -> GivenStreams]

StreamArgvs == UNION {[1..n -> Tokens] : n \in 0..MaxStreamArgv}

\* the streams of a process: all on a terminal, or all piped
ProcessStreams ==
    {[k \in StreamNames |->
        [obj |-> "process", encoding |-> e, wrapped |-> FALSE]] :
     e \in {"None", "UTF-8"}}

InitStreams ==
    /\ RunInit
    /\ ScanDone
    /\ DeclDone
    /\ BaseDone
    /\ registry \in Registries
    /\ sys_streams \in ProcessStreams
    /\ orig_streams = sys_streams
    /\ stream_args = DefaultStreams
    /\ streamsBefore = sys_streams

NextStreams ==
    \/ pc = "idle" /\ \E a \in StreamArgvs, given \in StreamArgs : Run(a, given)
    \/ pc = "call" /\ \E v \in ReturnValues : HandlerReturns(v)
    \/ pc = "call" /\ \E frames \in FrameSeqs : HandlerRaises(frames)
    \/ pc = "call" /\ \E frames \in FrameSeqs : HandlerInterrupted(frames)
    \/ HandlerSetsStdout

SpecStreams == InitStreams /\ [][NextStreams]_vars

\* C13: however run ends, sys.stdin, sys.stdout and sys.stderr are then the
\* objects they were immediately before run was called.
C13_StreamsRestored == pc = "done" => sys_streams = streamsBefore

\* run was given a stdout without encoding, wrapped it, the handler replaced
\* sys.stdout and was then interrupted
C13_Witness ==
    /\ pc = "done"
    /\ hev.kind = "interrupt"
    /\ stream_args["stdout"].obj = "given"
    /\ stream_args["stdout"].encoding = "None"
    /\ stream_args["stdin"] = None
    /\ sys_streams = streamsBefore
    /\ sys_streams["stdin"].encoding = "None"

====
